---- MODULE Spec2Model ----
(***************************************************************************)
(* Options-trading dashboard: Black-Scholes pricing (models/black_scholes), *)
(* option positions (models/option), the portfolio book and its curves      *)
(* (models/portfolio) and the Dash callbacks that drive them                *)
(* (controllers/trade_controller).                                          *)
(*                                                                          *)
(* Numbers.  A Python float is modelled as an integer count of 1/Scale      *)
(* units, or one of the three IEEE specials PInf, NInf, NaN.  Every          *)
(* arithmetic operation rounds its result to MantBits significant bits      *)
(* (round-half-even), as binary floating point does, so that sums are not   *)
(* associative in the model either.  Library functions (np.log, np.exp,     *)
(* np.sqrt, norm.cdf, norm.pdf, round, np.searchsorted, np.linspace) are    *)
(* computed numerically on that representation.                             *)
(***************************************************************************)
EXTENDS Integers, Sequences, FiniteSets, TLC

\* ------------------------------------------------------------------ bounds
Scale == 10000          \* one unit = 1/Scale
MantBits == 20          \* significant bits kept by an arithmetic result
MaxBook == 2            \* the book holds at most MaxBook positions
MaxDirect == 3          \* ... and at most MaxDirect when the Portfolio is used directly

\* ----------------------------------------------------- IEEE special values
PInf == 2000000000
NInf == -2000000000
NaN == 2000000001
None == -1999999999     \* Python None for an absent callback argument
IndexError == 1999999998 \* an IndexError raised instead of a value

IsNaN(x) == x = NaN
IsInf(x) == x = PInf \/ x = NInf
IsFin(x) == x > NInf /\ x < PInf

Abs(x) == IF x < 0 THEN -x ELSE x
Sgn(x) == IF x < 0 THEN -1 ELSE IF x > 0 THEN 1 ELSE 0

\* n / d rounded to the nearest integer, ties to even (n >= 0, d > 0)
RoundDiv(n, d) ==
  LET q == n \div d
      r == n % d
  IN  IF 2 * r < d THEN q
      ELSE IF 2 * r > d THEN q + 1
      ELSE IF q % 2 = 0 THEN q ELSE q + 1

\* the spacing of representable numbers at magnitude m
RECURSIVE Ulp(_, _)
Ulp(m, u) == IF (m \div u) < 2 ^ MantBits THEN u ELSE Ulp(m, 2 * u)

\* the rounding error one arithmetic result of magnitude m can carry: half a
\* unit in the last place, at most m / 2^MantBits, and never more than this
RoundingError(m) == m \div 2 ^ MantBits + 1

\* rounding of a real result to the nearest representable float
Fl(x) ==
  IF ~IsFin(x) THEN x
  ELSE LET m == Abs(x)
           u == Ulp(m, 1)
       IN  Sgn(x) * RoundDiv(m, u) * u

\* |a| * |b| / Scale, without leaving 32 bits
MulMag(a, b) ==
  LET ah == a \div Scale
      al == a % Scale
      bh == b \div Scale
      bl == b % Scale
  IN  ah * bh * Scale + ah * bl + al * bh + RoundDiv(al * bl, Scale)

\* |a| * Scale / |b| by long division, digit by digit (b > 0)
RECURSIVE DivDigits(_, _, _, _)
DivDigits(q, r, b, left) ==
  IF left = 1 THEN q
  ELSE LET r10 == r * 10
       IN  DivDigits(q * 10 + r10 \div b, r10 % b, b, left \div 10)
DivMag(a, b) ==
  LET q == DivDigits(a \div b, a % b, b, Scale * 10)    \* one guard digit
  IN  RoundDiv(q, 10)

FNeg(a) == IF IsNaN(a) THEN NaN
           ELSE IF a = PInf THEN NInf
           ELSE IF a = NInf THEN PInf
           ELSE -a

\* the sum kept in an array of a narrower dtype (12 bits fewer)
FAddNarrow(a, b) ==
  IF IsNaN(a) \/ IsNaN(b) THEN NaN
  ELSE IF IsInf(a) THEN (IF IsInf(b) /\ a # b THEN NaN ELSE a)
  ELSE IF IsInf(b) THEN b
  ELSE LET u == 2 ^ 12 * Ulp(Abs(a + b), 1)
       IN  Sgn(a + b) * RoundDiv(Abs(a + b), u) * u

\* a + b on floats
FAdd(a, b) ==
  IF IsNaN(a) \/ IsNaN(b) THEN NaN
  ELSE IF IsInf(a) THEN (IF IsInf(b) /\ a # b THEN NaN ELSE a)
  ELSE IF IsInf(b) THEN b
  ELSE Fl(a + b)

FSub(a, b) == FAdd(a, FNeg(b))

FMul(a, b) ==
  IF IsNaN(a) \/ IsNaN(b) THEN NaN
  ELSE IF IsInf(a) \/ IsInf(b)
       THEN (IF a = 0 \/ b = 0 THEN NaN
             ELSE IF Sgn(a) * Sgn(b) > 0 THEN PInf ELSE NInf)
  ELSE Fl(Sgn(a) * Sgn(b) * MulMag(Abs(a), Abs(b)))

\* numpy float64 division: a zero divisor gives inf or nan, never an exception
FDiv(a, b) ==
  IF IsNaN(a) \/ IsNaN(b) THEN NaN
  ELSE IF IsInf(a)
       THEN (IF IsInf(b) THEN NaN
             ELSE IF Sgn(a) * (IF b < 0 THEN -1 ELSE 1) > 0 THEN PInf ELSE NInf)
  ELSE IF IsInf(b) THEN 0
  ELSE IF b = 0
       THEN (IF a = 0 THEN NaN ELSE IF a > 0 THEN PInf ELSE NInf)
  ELSE Fl(Sgn(a) * Sgn(b) * DivMag(Abs(a), Abs(b)))

\* a Python int n converted to float
IntToF(n) == n * Scale

\* -------------------------------------------------- library functions
\* integer square root, by bisection
RECURSIVE ISqrt(_, _, _)
ISqrt(n, lo, hi) ==
  IF hi - lo <= 1 THEN (IF hi * hi <= n THEN hi ELSE lo)
  ELSE LET mid == (lo + hi) \div 2
       IN  IF mid * mid <= n THEN ISqrt(n, mid, hi) ELSE ISqrt(n, lo, mid)

\* np.sqrt: nan (with a warning) below zero
Sqrt(x) ==
  IF IsNaN(x) \/ x < 0 THEN NaN
  ELSE IF x = PInf THEN PInf
  ELSE LET r == ISqrt(x * Scale, 0, 46340)
       IN  Fl(IF (x * Scale - r * r) > r THEN r + 1 ELSE r)

Ln2 == (6931 * Scale) \div 10000

\* ln(m) for m near 1: 2 * atanh((m - 1) / (m + 1))
LnSeries(m) ==
  LET num == m - Scale
      z == Sgn(num) * DivMag(Abs(num), m + Scale)
      a == Abs(z)
      z2 == MulMag(a, a)
      z3 == MulMag(z2, a)
      z5 == MulMag(z3, z2)
      z7 == MulMag(z5, z2)
  IN  Sgn(z) * 2 * (a + RoundDiv(z3, 3) + RoundDiv(z5, 5) + RoundDiv(z7, 7))

\* ln of a positive finite x, reduced to [0.7, 1.4] by powers of two
RECURSIVE LnPos(_)
LnPos(x) ==
  IF 10 * x > 14 * Scale THEN Ln2 + LnPos(RoundDiv(x, 2))
  ELSE IF 10 * x < 7 * Scale THEN LnPos(2 * x) - Ln2
  ELSE LnSeries(x)

\* np.log: -inf at zero, nan below zero (warnings, no exception)
Ln(x) ==
  IF IsNaN(x) \/ x < 0 THEN NaN
  ELSE IF x = 0 THEN NInf
  ELSE IF x = PInf THEN PInf
  ELSE Fl(LnPos(x))

\* e^r for 0 <= r < ln 2, by Horner's rule on the Taylor series
RECURSIVE ExpHorner(_, _)
ExpHorner(r, k) ==
  IF k > 8 THEN Scale
  ELSE Scale + RoundDiv(MulMag(r, ExpHorner(r, k + 1)), k)

\* np.exp
Exp(x) ==
  IF IsNaN(x) THEN NaN
  ELSE IF x = PInf THEN PInf
  ELSE IF x = NInf THEN 0
  ELSE LET n == x \div Ln2
           t == ExpHorner(x - n * Ln2, 1)
       IN  IF n >= 0 THEN (IF n > 14 THEN PInf ELSE Fl(t * 2 ^ n))
           ELSE IF n < -30 THEN 0
           ELSE Fl(RoundDiv(t, 2 ^ (-n)))

InvSqrt2Pi == (3989 * Scale) \div 10000

\* scipy.stats.norm.pdf
Pdf(x) ==
  IF IsNaN(x) THEN NaN
  ELSE IF IsInf(x) \/ Abs(x) > 8 * Scale THEN 0
  ELSE LET a == Abs(x)
       IN  Fl(MulMag(InvSqrt2Pi, Exp(-(MulMag(a, a) \div 2))))

\* upper tail of the normal law for a >= 0 (Abramowitz-Stegun 26.2.17)
CdfTail(a) ==
  LET t == DivMag(Scale, Scale + MulMag((2316 * Scale) \div 10000, a))
      b1 == (3194 * Scale) \div 10000
      b2 == (3566 * Scale) \div 10000
      b3 == (17815 * Scale) \div 10000
      b4 == (18213 * Scale) \div 10000
      b5 == (13303 * Scale) \div 10000
      h4 == b4 - MulMag(t, b5)
      h3 == b3 - MulMag(t, h4)
      h2 == b2 - MulMag(t, h3)
      h1 == b1 - MulMag(t, h2)
      tail == MulMag(Pdf(a), MulMag(t, h1))
  IN  IF tail > Scale \div 2 THEN Scale \div 2 ELSE tail

\* scipy.stats.norm.cdf
Cdf(x) ==
  IF IsNaN(x) THEN NaN
  ELSE IF x = PInf THEN Scale
  ELSE IF x = NInf THEN 0
  ELSE IF x >= 0 THEN Scale - CdfTail(x)
  ELSE CdfTail(-x)

\* -------------------------------------------- models/black_scholes.py
\* d1 = (np.log(S / K) + (r + 0.5 * sigma ** 2) * T) / (sigma * np.sqrt(T))
d1(S, K, T, r, sigma) ==
  FDiv(FAdd(Ln(FDiv(S, K)),
            FMul(FAdd(r, FMul(Scale \div 2, FMul(sigma, sigma))), T)),
       FMul(sigma, Sqrt(T)))

d2(S, K, T, r, sigma) == FSub(d1(S, K, T, r, sigma), FMul(sigma, Sqrt(T)))

\* the put priced with the strike left undiscounted
price_undiscounted_put(S, K, T, r, sigma, opt) ==
  LET D1 == d1(S, K, T, r, sigma)
      D2 == d2(S, K, T, r, sigma)
  IN  IF opt = "Call"
      THEN FSub(FMul(S, Cdf(D1)), FMul(FMul(K, Exp(FMul(FNeg(r), T))), Cdf(D2)))
      ELSE FSub(FMul(K, Cdf(FNeg(D2))), FMul(S, Cdf(FNeg(D1))))

\* BlackScholes.price
price(S, K, T, r, sigma, opt) ==
  LET D1 == d1(S, K, T, r, sigma)
      D2 == d2(S, K, T, r, sigma)
  IN  IF opt = "Call"
      THEN FSub(FMul(S, Cdf(D1)), FMul(FMul(K, Exp(FMul(FNeg(r), T))), Cdf(D2)))
      ELSE FSub(FMul(FMul(K, Exp(FMul(FNeg(r), T))), Cdf(FNeg(D2))),
                FMul(S, Cdf(FNeg(D1))))

delta(S, K, T, r, sigma, opt) ==
  LET D1 == d1(S, K, T, r, sigma)
  IN  IF opt = "Call" THEN Cdf(D1) ELSE FSub(Cdf(D1), Scale)

gamma(S, K, T, r, sigma) ==
  LET D1 == d1(S, K, T, r, sigma)
  IN  FDiv(Pdf(D1), FMul(FMul(S, sigma), Sqrt(T)))

vega(S, K, T, r, sigma) ==
  LET D1 == d1(S, K, T, r, sigma)
  IN  FMul(FMul(S, Pdf(D1)), Sqrt(T))

theta(S, K, T, r, sigma, opt) ==
  LET D1 == d1(S, K, T, r, sigma)
      D2 == d2(S, K, T, r, sigma)
      decay == FDiv(FMul(FMul(FNeg(S), Pdf(D1)), sigma), FMul(2 * Scale, Sqrt(T)))
      carry == FMul(FMul(r, K), Exp(FMul(FNeg(r), T)))
  IN  IF opt = "Call"
      THEN FSub(decay, FMul(carry, Cdf(D2)))
      ELSE FAdd(decay, FMul(carry, Cdf(FNeg(D2))))

rho(S, K, T, r, sigma, opt) ==
  LET D2 == d2(S, K, T, r, sigma)
      kt == FMul(FMul(K, T), Exp(FMul(FNeg(r), T)))
  IN  IF opt = "Call"
      THEN FMul(kt, Cdf(D2))
      ELSE FMul(FMul(FMul(FNeg(K), T), Exp(FMul(FNeg(r), T))), Cdf(FNeg(D2)))

\* a function written out as an explicit table, so that it is computed once
Tabulate(f) == f @@ <<>>

\* decimal literal n / d as a float
Dec(n, d) == (n * Scale) \div d

\* ------------------------------------------------------------ requests
\* values the "spot" slider (or a posted request) can carry
Spots == {None, IntToF(40), IntToF(150), IntToF(160)}

\* the State arguments of update_book other than spot
Request(opt, side, strike, qty, vol, rate, maturity, price_input) ==
  [opt |-> opt, side |-> side, strike |-> strike, qty |-> qty, vol |-> vol,
   rate |-> rate, maturity |-> maturity, price_input |-> price_input]

\* the form left untouched
NoRequest == Request("None", "None", None, None, None, None, None, None)

\* the trade requests tried: the empty form (every default, model price), explicit
\* prices with a third decimal, a negative price, the same contract bought and
\* sold, and degenerate contracts
Requests ==
  {NoRequest,
   Request("None", "None", None, None, None, None, None, Dec(-1, 1)),
   Request("Call", "BUY", IntToF(90), 3, None, None, None, Dec(2006, 1000)),
   Request("Call", "SELL", IntToF(90), 3, None, None, None, Dec(2006, 1000)),
   Request("Put", "SELL", IntToF(90), 3, None, None, None, Dec(2006, 1000)),
   Request("Call", "BUY", 0, None, None, None, None, None),
   Request("Call", "BUY", 0, None, None, None, None, Dec(2006, 1000)),
   Request("Call", "BUY", IntToF(90), None, 0, None, None, Dec(2006, 1000)),
   Request("Call", "SELL", IntToF(90), None, 0, None, None, Dec(2006, 1000)),
   Request("Call", "BUY", IntToF(90), 0, None, None, 0, Dec(2006, 1000))}

Triggers == {"trade", "flatten", "None"}

\* update_book lines 117-125: defaults for missing inputs
Defaults(req, spot_value) ==
  LET spot_ == IF spot_value # None THEN spot_value ELSE IntToF(100)
  IN  [spot |-> spot_,
       qty |-> IF req.qty # None THEN req.qty ELSE 1,
       strike |-> IF req.strike # None THEN req.strike ELSE spot_,
       vol |-> IF req.vol # None THEN req.vol ELSE Dec(2, 10),
       rate |-> IF req.rate # None THEN req.rate ELSE Dec(1, 100),
       maturity |-> IF req.maturity # None THEN req.maturity ELSE Dec(5, 10),
       price_input |-> IF req.price_input # None THEN req.price_input ELSE 0,
       opt |-> IF req.opt \in {"Call", "Put"} THEN req.opt ELSE "Call",
       side |-> IF req.side \in {"BUY", "SELL"} THEN req.side ELSE "BUY"]

\* the spot values a callback can work with, after the default of line 117
ScalarSpots == {Defaults(NoRequest, s).spot : s \in Spots \cup {IntToF(100)}}

\* every (S, K, T, r, sigma, opt) the callbacks can price at a single spot
ScalarArgs ==
  {<<sv, a.strike, a.maturity, a.rate, a.vol, a.opt>> :
      sv \in ScalarSpots,
      a \in {Defaults(req, s) : req \in Requests, s \in Spots}}

\* BlackScholes.price on those arguments, computed once
PriceMemo == Tabulate([a \in ScalarArgs |-> price(a[1], a[2], a[3], a[4], a[5], a[6])])

\* S / K on two Python numbers raises ZeroDivisionError when K is zero; on the
\* numpy grid the same division only warns and yields inf or nan
ScalarPriceRaises(S, K) == K = 0

\* --------------------------------------------------- models/option.py
\* Python round(x, 2): nearest multiple of 0.01, ties to even; nan and inf pass
Round2(x) ==
  IF ~IsFin(x) THEN x
  ELSE Fl(Sgn(x) * RoundDiv(Abs(x), Scale \div 100) * (Scale \div 100))

\* Option.__init__: no argument is validated
Option(type_, side, strike, qty, vol, rate, maturity, price_entry) ==
  [type |-> type_, side |-> side, strike |-> strike, qty |-> qty, vol |-> vol,
   rate |-> rate, maturity |-> maturity,
   price_entry |-> Round2(price_entry),
   prime |-> Round2(FMul(FMul(IntToF(qty), price_entry),
                         IntToF(IF side = "BUY" THEN -1 ELSE 1)))]

\* the sign taken the wrong way round
OptionPnlFlipped(o, spot_) ==
  LET sign == IF o.side = "BUY" THEN -1 ELSE 1
      current_price == PriceMemo[<<spot_, o.strike, o.maturity, o.rate, o.vol, o.type>>]
  IN  Round2(FMul(IntToF(sign * o.qty), FSub(current_price, o.price_entry)))

\* Option.pnl(spot), when it does not raise
OptionPnl(o, spot_) ==
  LET sign == IF o.side = "BUY" THEN 1 ELSE -1
      current_price == PriceMemo[<<spot_, o.strike, o.maturity, o.rate, o.vol, o.type>>]
  IN  Round2(FMul(IntToF(sign * o.qty), FSub(current_price, o.price_entry)))

\* ">= 0" in place of "> 0": a zero price is taken as given
PriceEntryZeroGiven(a) ==
  IF a.price_input >= 0 THEN a.price_input
  ELSE PriceMemo[<<a.spot, a.strike, a.maturity, a.rate, a.vol, a.opt>>]

\* update_book line 140: the entry price handed to Option
PriceEntry(a) ==
  IF a.price_input > 0 THEN a.price_input
  ELSE PriceMemo[<<a.spot, a.strike, a.maturity, a.rate, a.vol, a.opt>>]

\* update_book line 141: the Option built from the defaulted arguments a
NewOption(a) ==
  Option(a.opt, a.side, a.strike, a.qty, a.vol, a.rate, a.maturity, PriceEntry(a))

\* every position a request can put in the book
Options ==
  {NewOption(a) : a \in {d \in {Defaults(req, s) : req \in Requests, s \in Spots} :
                           ~(d.price_input < 0)}}

\* ----------------------------------------------------------------- state
VARIABLES
  book,          \* Portfolio.book, the list of Option objects
  spot,          \* value of the "spot" slider
  active_tab,    \* dcc.Store "active-tab"
  book_data,     \* dcc.Store "book-data"
  risk_pnl,      \* the P&L figure of "risk-strip" (None before the first update)
  prime_error,   \* "prime-error".displayed
  right_panel,   \* what render_right_panel last put in "right-panel"
  pending,       \* an Input of render_right_panel changed and it has not run yet
  result,        \* what ran last and how it ended
  curves,        \* what portfolio_curves() returned to a direct caller, when
                 \* that call was the last operation on the portfolio
  grid,          \* the contents of the class attribute Portfolio.spot_grid
  it,            \* index of the list iterator of a portfolio_curves pass that
                 \* another caller can interrupt (None: no such pass is running)
  summed,        \* the positions that pass has added to its totals so far
  seen,          \* the contents the book has had since that pass began
  quote          \* arguments handed to BlackScholes.price and the prices returned

\* ------------------------------------------------- models/portfolio.py
GridLo == 50
GridHi == 150
GridN == 200

\* np.linspace(50, 150, 200), indexed from 0 as the array is
spot_grid ==
  Tabulate([i \in 0..(GridN - 1) |->
     Fl(IntToF(GridLo) + RoundDiv(i * (IntToF(GridHi) - IntToF(GridLo)), GridN - 1))])

\* np.empty_like in its place: whatever the memory held
empty_like(a) == [i \in DOMAIN a |-> 1]

\* np.zeros_like
zeros_like(a) == [i \in DOMAIN a |-> 0]

\* np.searchsorted(a, v), side "left": how many entries lie strictly below v
searchsorted(a, v) == Cardinality({i \in DOMAIN a : a[i] < v})

CurveNames == {"pnl", "delta", "gamma", "vega", "theta", "rho"}

\* what the loop body of portfolio_curves adds to curve c at grid index i
Contribution(opt, c, i) ==
  LET sign == IF opt.side = "BUY" THEN 1 ELSE -1
      S == spot_grid[i]
  IN  IF c = "pnl"
      THEN FMul(IntToF(sign * opt.qty),
                FSub(price(S, opt.strike, opt.maturity, opt.rate, opt.vol, opt.type),
                     opt.price_entry))
      ELSE IF c = "delta"
      THEN FMul(IntToF(sign * opt.qty),
                delta(S, opt.strike, opt.maturity, opt.rate, opt.vol, opt.type))
      ELSE IF c = "gamma"
      THEN FMul(IntToF(sign * opt.qty),
                gamma(S, opt.strike, opt.maturity, opt.rate, opt.vol))
      ELSE IF c = "vega"
      THEN FMul(IntToF(sign * opt.qty),
                vega(S, opt.strike, opt.maturity, opt.rate, opt.vol))
      ELSE IF c = "theta"
      THEN FMul(IntToF(sign * opt.qty),
                theta(S, opt.strike, opt.maturity, opt.rate, opt.vol, opt.type))
      ELSE FMul(IntToF(sign * opt.qty),
                rho(S, opt.strike, opt.maturity, opt.rate, opt.vol, opt.type))

\* the contributions of every position, computed once
ContributionMemo ==
  Tabulate([o \in Options |->
     Tabulate([c \in CurveNames |->
        Tabulate([i \in DOMAIN spot_grid |-> Contribution(o, c, i)])])])

\* "=" in place of "+=": each position overwrites the totals
AccumulateOverwrite(bk, n) ==
  IF n = 0 THEN [c \in CurveNames |-> zeros_like(spot_grid)]
  ELSE [c \in CurveNames |->
          [i \in DOMAIN spot_grid |-> ContributionMemo[bk[n]][c][i]]]

\* the running totals after the first n positions of the book
RECURSIVE Accumulate(_, _)
Accumulate(bk, n) ==
  IF n = 0 THEN [c \in CurveNames |-> zeros_like(spot_grid)]
  ELSE LET prev == Accumulate(bk, n - 1)
       IN  [c \in CurveNames |->
              [i \in DOMAIN spot_grid |-> FAdd(prev[c][i], ContributionMemo[bk[n]][c][i])]]

\* the totals kept on the object between calls instead of starting from zeros
portfolio_curves_carried(bk) ==
  IF curves = <<>> THEN Accumulate(bk, Len(bk))
  ELSE [c \in CurveNames |->
          [i \in DOMAIN spot_grid |-> FAdd(curves[c][i], Accumulate(bk, Len(bk))[c][i])]]

\* Portfolio.portfolio_curves
portfolio_curves(bk) == Accumulate(bk, Len(bk))

\* the first accumulator bound to the grid itself (pnl = Portfolio.spot_grid):
\* "+=" then writes the contributions into the shared grid
grid_after_curves_aliased(g, bk) ==
  IF bk = <<>> THEN g
  ELSE [i \in DOMAIN g |-> FAdd(g[i], ContributionMemo[bk[1]]["pnl"][i])]

\* what a portfolio_curves pass over bk leaves in Portfolio.spot_grid, which
\* held g: the accumulators are new arrays (lines 56-61), "+=" writes into
\* them, and BlackScholes only reads its argument S
grid_after_curves(g, bk) == g

\* Portfolio.add_option
add_option(bk, opt) == Append(bk, opt)

\* pop() in place of clear(): only the last position goes
flattenPop(bk) == SubSeq(bk, 1, Len(bk) - 1)

\* Portfolio.flatten
flatten(bk) == <<>>

\* ------------------------------------- controllers/trade_controller.py
\* the sign check left out
ShowErrorNever(triggered_id, a) == FALSE

\* update_book line 134: a trade with a negative entry price is refused
ShowError(triggered_id, a) == triggered_id = "trade" /\ a.price_input < 0

\* pnl[spot_idx] on a numpy array of GridN entries: IndexError past the end
Subscript(pnl, spot_idx) ==
  IF spot_idx < GridN THEN pnl[spot_idx] ELSE IndexError

\* the lookup without its try/except
CurrentPnlUnguarded(pnl, spot_) == Subscript(pnl, searchsorted(spot_grid, spot_))

\* update_book lines 146-151: PnL at the current spot; the except clause turns
\* any exception of the lookup into 0
CurrentPnl(pnl, spot_) ==
  LET spot_idx == searchsorted(spot_grid, spot_)
      looked_up == IF GridN > 0 THEN Subscript(pnl, spot_idx) ELSE 0
  IN  IF looked_up = IndexError THEN 0 ELSE looked_up

\* update_book lines 165-179: one row per position, with its pnl at spot
BookRow(o, spot_) ==
  [type |-> o.type, side |-> o.side, strike |-> o.strike, qty |-> o.qty,
   vol |-> o.vol, rate |-> o.rate, maturity |-> o.maturity,
   price_entry |-> o.price_entry, prime |-> o.prime, pnl |-> OptionPnl(o, spot_)]

BookData(bk, spot_) == [n \in 1..Len(bk) |-> BookRow(bk[n], spot_)]

\* ----------------------------------------------------------- behaviour
vars == <<book, spot, active_tab, book_data, risk_pnl, prime_error, right_panel,
          pending, result, curves, grid, it, summed, seen, quote>>

\* the variables of an interruptible pass
pass_vars == <<it, summed, seen>>

\* app.py: an empty Portfolio; dash_app.py: the layout's initial properties;
\* the browser then runs the callbacks of the page load
Init ==
  /\ book = <<>>
  /\ spot = IntToF(100)
  /\ active_tab = "Equity"
  /\ book_data = <<>>
  /\ risk_pnl = None
  /\ prime_error = FALSE
  /\ right_panel = [kind |-> "empty"]
  /\ pending = TRUE
  /\ result = "none"
  /\ curves = <<>>
  /\ grid = spot_grid
  /\ it = None
  /\ summed = <<>>
  /\ seen = {}
  /\ quote = <<>>

\* the user moves the slider (or a request posts another spot value)
ChangeSpot(s) ==
  /\ ~pending
  /\ s # spot
  /\ spot' = s
  /\ pending' = TRUE
  /\ result' = "none"
  /\ UNCHANGED <<book, active_tab, book_data, risk_pnl, prime_error, right_panel,
                 curves, grid, pass_vars, quote>>

\* switch_tab
switch_tab(clicked_id) ==
  /\ ~pending
  /\ active_tab' = IF clicked_id = "tab-equity" THEN "Equity"
                   ELSE IF clicked_id = "tab-bonds" THEN "Bonds"
                   ELSE IF clicked_id = "tab-credit" THEN "Credit"
                   ELSE "Equity"
  /\ pending' = TRUE
  /\ result' = "switched"
  /\ UNCHANGED <<book, spot, book_data, risk_pnl, prime_error, right_panel, curves,
                 grid, pass_vars, quote>>

\* the body of update_book, whoever calls it
update_book_runs(triggered_id, req) ==
  LET a == Defaults(req, spot)
      show_error == ShowError(triggered_id, a)
      model_priced == triggered_id = "trade" /\ ~show_error /\ ~(a.price_input > 0)
      price_raises == model_priced /\ ScalarPriceRaises(a.spot, a.strike)
      bk == IF triggered_id = "flatten" THEN flatten(book)
            ELSE IF triggered_id = "trade" THEN add_option(book, NewOption(a))
            ELSE book
      pnl == portfolio_curves(bk)["pnl"]
      current_pnl == CurrentPnl(pnl, a.spot)
      rows_raise == \E n \in 1..Len(bk) : ScalarPriceRaises(a.spot, bk[n].strike)
  IN  /\ (triggered_id = "trade" /\ ~show_error /\ ~price_raises) => Len(book) < MaxBook
      /\ IF show_error
         THEN \* return dash.no_update, dash.no_update, True
              /\ prime_error' = TRUE
              /\ result' = "no_update"
              /\ UNCHANGED <<book, book_data, risk_pnl, pending, grid>>
         ELSE IF price_raises
         THEN \* ZeroDivisionError out of BlackScholes.price, before add_option
              /\ result' = "raised"
              /\ UNCHANGED <<book, book_data, risk_pnl, prime_error, pending, grid>>
         ELSE IF rows_raise
         THEN \* ZeroDivisionError out of o.pnl(spot), after the book was changed
              /\ book' = bk
              /\ grid' = grid_after_curves(grid, book')
              /\ result' = "raised"
              /\ UNCHANGED <<book_data, risk_pnl, prime_error, pending>>
         ELSE /\ book' = bk
              /\ grid' = grid_after_curves(grid, book')
              /\ book_data' = BookData(bk, a.spot)
              /\ risk_pnl' = current_pnl
              /\ prime_error' = FALSE
              /\ pending' = TRUE
              /\ result' = "returned"
      /\ UNCHANGED <<spot, active_tab, right_panel, curves, quote>>

\* update_book, run by the browser once the page has settled
update_book(triggered_id, req) ==
  /\ ~pending
  /\ update_book_runs(triggered_id, req)
  /\ UNCHANGED pass_vars

\* render_right_panel
render_right_panel ==
  LET spot_ == IF spot # None THEN spot ELSE IntToF(100)
  IN  /\ pending
      /\ pending' = FALSE
      /\ right_panel' =
           IF active_tab # "Equity" THEN [kind |-> "message"]
           ELSE [kind |-> "equity",
                 curves_of |-> book,      \* the six graphs plot portfolio_curves of it
                 strikes |-> [n \in 1..Len(book) |-> book[n].strike],
                 spot |-> spot_,
                 table |-> book_data]
      /\ grid' = IF active_tab # "Equity" THEN grid ELSE grid_after_curves(grid, book)
      /\ result' = "rendered"
      /\ UNCHANGED <<book, spot, active_tab, book_data, risk_pnl, prime_error, curves,
                     pass_vars, quote>>

Next ==
  \/ \E s \in Spots : ChangeSpot(s)
  \/ \E c \in {"tab-equity", "tab-bonds", "None"} : switch_tab(c)
  \/ \E req \in Requests : update_book("trade", req)
  \/ \E t \in {"flatten", "None"} : update_book(t, NoRequest)
  \/ render_right_panel

\* the dashboard: one browser, callbacks run one at a time
Spec == Init /\ [][Next]_vars

\* -------------------------------------- the Portfolio object used directly
ui == <<spot, active_tab, book_data, risk_pnl, prime_error, right_panel, pending>>

\* the positions a direct caller adds: those of the requests that name their price
DirectOptions ==
  {NewOption(Defaults(req, None)) :
      req \in {r \in Requests : r.price_input # None /\ r.price_input > 0}}

\* portfolio.add_option(opt)
PortfolioAddOption(opt) ==
  /\ Len(book) < MaxDirect
  /\ book' = add_option(book, opt)
  /\ result' = "add_option"
  /\ curves' = <<>>
  /\ UNCHANGED <<ui, grid, pass_vars, quote>>

\* portfolio.flatten()
PortfolioFlatten ==
  /\ book' = flatten(book)
  /\ result' = "flatten"
  /\ curves' = <<>>
  /\ UNCHANGED <<ui, grid, pass_vars, quote>>

\* portfolio.portfolio_curves()
PortfolioCurves ==
  /\ curves' = portfolio_curves(book)
  /\ grid' = grid_after_curves(grid, book)
  /\ result' = "portfolio_curves"
  /\ UNCHANGED <<book, ui, pass_vars, quote>>

NextPortfolio ==
  \/ \E opt \in DirectOptions : PortfolioAddOption(opt)
  \/ PortfolioFlatten
  \/ PortfolioCurves

\* a caller that adds, flattens and asks for the curves, with no dashboard
SpecPortfolio == Init /\ [][NextPortfolio]_vars

\* ------------------------------ two callers at once on the shared Portfolio
\* the trades the second caller posts: well-formed contracts at a given price
CallerRequests ==
  {r \in Requests :
      /\ r.price_input # None /\ r.price_input > 0
      /\ r.strike # None /\ r.strike > 0
      /\ r.qty # None /\ r.qty > 0
      /\ r.vol = None /\ r.maturity = None}

\* render_right_panel reaches line 216 and portfolio_curves line 64: the totals
\* are zero and the for loop has its iterator on self.book
render_begin ==
  /\ it = None
  /\ active_tab = "Equity"
  /\ it' = 0
  /\ summed' = <<>>
  /\ seen' = {book}
  /\ UNCHANGED <<book, ui, result, curves, grid, quote>>

\* one turn of "for opt in self.book": the iterator hands out book[it] and the
\* six "+=" add that position's contributions
render_loop ==
  /\ it # None
  /\ it < Len(book)
  /\ summed' = Append(summed, book[it + 1])
  /\ it' = it + 1
  /\ UNCHANGED <<book, ui, result, curves, grid, seen, quote>>

\* the iterator is past the end of the list: portfolio_curves returns its
\* totals and render_right_panel lines 217-248 build the panel
render_return ==
  /\ it # None
  /\ it >= Len(book)
  /\ it' = None
  /\ right_panel' =
       [kind |-> "equity",
        curves_of |-> summed,
        strikes |-> [n \in 1..Len(book) |-> book[n].strike],
        spot |-> IF spot # None THEN spot ELSE IntToF(100),
        table |-> book_data]
  /\ grid' = grid_after_curves(grid, summed)
  /\ pending' = FALSE
  /\ result' = "rendered"
  /\ UNCHANGED <<book, spot, active_tab, book_data, risk_pnl, prime_error, curves,
                 summed, seen, quote>>

\* update_book run by a second caller, in one piece, between two steps of the
\* first; during one pass the second caller gets in at most MaxBook times
caller_update_book(triggered_id, req) ==
  /\ it # None => Cardinality(seen) <= MaxBook
  /\ update_book_runs(triggered_id, req)
  /\ seen' = IF it = None THEN seen ELSE seen \cup {book'}
  /\ UNCHANGED <<it, summed>>

NextConcurrent ==
  \/ render_begin
  \/ render_loop
  \/ render_return
  \/ \E req \in CallerRequests : caller_update_book("trade", req)
  \/ caller_update_book("flatten", NoRequest)

\* the server answering two requests at once (threads), no lock on the Portfolio
SpecConcurrent == Init /\ [][NextConcurrent]_vars

\* ------------------------------------------- BlackScholes.price on its own
\* the arguments priced: spot, strike, maturity, rate (negative, zero and
\* positive) and volatility of well-formed contracts
PricingInputs ==
  {[S |-> IntToF(S), K |-> IntToF(K), T |-> T, r |-> r, sigma |-> sigma,
    call |-> None, put |-> None] :
      S \in {50, 100, 150}, K \in {90, 100, 110},
      T \in {Dec(25, 100), Dec(5, 10), IntToF(2)},
      r \in {Dec(-1, 100), 0, Dec(5, 100)},
      sigma \in {Dec(1, 10), Dec(2, 10), Dec(5, 10)}}

InitPricing ==
  /\ book = <<>>
  /\ spot = IntToF(100)
  /\ active_tab = "Equity"
  /\ book_data = <<>>
  /\ risk_pnl = None
  /\ prime_error = FALSE
  /\ right_panel = [kind |-> "empty"]
  /\ pending = TRUE
  /\ result = "none"
  /\ curves = <<>>
  /\ grid = spot_grid
  /\ it = None
  /\ summed = <<>>
  /\ seen = {}
  /\ quote \in PricingInputs

\* BlackScholes.price(S, K, T, r, sigma, "Call") and (..., "Put")
PriceBoth ==
  /\ quote.call = None
  /\ quote' = [quote EXCEPT
                 !.call = price(quote.S, quote.K, quote.T, quote.r, quote.sigma, "Call"),
                 !.put = price(quote.S, quote.K, quote.T, quote.r, quote.sigma, "Put")]
  /\ result' = "priced"
  /\ UNCHANGED <<book, ui, curves, grid, pass_vars>>

NextPricing == PriceBoth

\* a caller that prices a call and a put on the same arguments
SpecPricing == InitPricing /\ [][NextPricing]_vars

\* ================================================================= claims
\* the spot a callback works with, after the default
EffSpot == IF spot # None THEN spot ELSE IntToF(100)

\* six curves, each of the grid's length and zero at every index
AllZeroCurves(c) ==
  /\ DOMAIN c = CurveNames
  /\ \A n \in CurveNames :
       /\ DOMAIN c[n] = DOMAIN spot_grid
       /\ Cardinality(DOMAIN c[n]) = GridN
       /\ \A i \in DOMAIN c[n] : c[n][i] = 0

\* C1: whenever the book is empty (at the start, or after flatten() following
\* any sequence of add_option and flatten calls), portfolio_curves() returns six
\* curves that are zero at every index and have the length of the spot grid.
C1_EmptyBookZeroCurves ==
  /\ (result = "flatten" => book = <<>>)
  /\ ((result = "portfolio_curves" /\ book = <<>>) => AllZeroCurves(curves))

\* C1 witness: the curves were asked for while the book was empty
C1_Witness ==
  /\ result = "portfolio_curves"
  /\ book = <<>>
  /\ curves # <<>>

\* C2: for any two positions p1, p2 each curve of the book [p1, p2] is, index
\* by index, the (floating-point) sum of the curves of [p1] and of [p2].
C2_AggregationLinear ==
  (result = "portfolio_curves" /\ Len(book) = 2) =>
     LET c1 == portfolio_curves(<<book[1]>>)
         c2 == portfolio_curves(<<book[2]>>)
     IN  \A n \in CurveNames : \A i \in DOMAIN spot_grid :
            curves[n][i] = FAdd(c1[n][i], c2[n][i])

\* C2 witness: curves of a two-position book whose positions both contribute
C2_Witness ==
  /\ result = "portfolio_curves"
  /\ Len(book) = 2
  /\ book[1] # book[2]
  /\ \E i \in DOMAIN spot_grid :
        /\ IsFin(curves["pnl"][i])
        /\ curves["pnl"][i] # portfolio_curves(<<book[1]>>)["pnl"][i]
        /\ curves["pnl"][i] # portfolio_curves(<<book[2]>>)["pnl"][i]

\* C3: a trade request with a negative entry price leaves the book as it was,
\* returns the error flag as true, and lets no exception escape.
C3_NegativePriceRejected ==
  [][\A req \in Requests :
        (Defaults(req, spot).price_input < 0 /\ update_book("trade", req)) =>
           (book' = book /\ prime_error' = TRUE /\ result' = "no_update")]_vars

\* C3 witness: a negative price was refused while the book held a position
C3_Witness ==
  /\ result = "no_update"
  /\ prime_error = TRUE
  /\ book # <<>>

\* C4: every position in the book has quantity, volatility, maturity and strike
\* above zero (degenerate requests are refused when the position is built).
C4_PositionsValid ==
  \A n \in 1..Len(book) :
     /\ book[n].qty > 0
     /\ book[n].vol > 0
     /\ book[n].maturity > 0
     /\ book[n].strike > 0

\* C5: the current-spot PnL lookup of update_book never fails: whatever the spot
\* and the book, the lookup raises no IndexError, an update_book that raises
\* does so outside the lookup (a zero strike), one that returns reports a
\* number, and that number is 0 for an empty book.
C5_LookupNeverFails ==
  [][(~pending /\ result' \in {"returned", "raised"}) =>
        /\ CurrentPnl(portfolio_curves(book')["pnl"], EffSpot) # IndexError
        /\ result' = "raised" =>
             \/ \E n \in 1..Len(book') : ScalarPriceRaises(EffSpot, book'[n].strike)
             \/ \E req \in Requests :
                   /\ update_book("trade", req)
                   /\ ScalarPriceRaises(EffSpot, Defaults(req, spot).strike)
        /\ result' = "returned" =>
             /\ risk_pnl' \notin {None, IndexError}
             /\ book' = <<>> => risk_pnl' = 0]_vars

\* C5 witness: update_book returned with the spot above the grid and a position
\* in the book
C5_Witness ==
  /\ result = "returned"
  /\ spot = IntToF(160)
  /\ book # <<>>
  /\ risk_pnl # None

\* C6: the PnL reported by update_book is the freshly computed PnL curve read at
\* the insertion index of the spot, and at the last grid point when the spot
\* lies above the grid.
C6_LookupReadsNearestPoint ==
  [][\A t \in Triggers : \A req \in Requests \cup {NoRequest} :
        (update_book(t, req) /\ result' = "returned") =>
           LET idx == searchsorted(spot_grid, EffSpot)
               nearest == IF idx < GridN THEN idx ELSE GridN - 1
           IN  risk_pnl' = portfolio_curves(book')["pnl"][nearest]]_vars

\* C7: the stored premium is the signed quantity times the stored (rounded)
\* entry price, rounded to 2 decimals.
C7_PrimeFromStoredEntry ==
  \A n \in 1..Len(book) :
     book[n].prime =
        Round2(FMul(FMul(IntToF(book[n].qty), book[n].price_entry),
                    IntToF(IF book[n].side = "BUY" THEN -1 ELSE 1)))

\* C8: an accepted trade with entry price 0 or absent stores the model price at
\* the request's spot, rounded to 2 decimals; one with a positive entry price
\* stores that price, rounded to 2 decimals.
C8_EntryPriceResolved ==
  [][(Len(book') = Len(book) + 1) =>
        \A req \in Requests :
           update_book("trade", req) =>
              LET a == Defaults(req, spot)
                  o == book'[Len(book')]
              IN  IF req.price_input \in {None, 0}
                  THEN o.price_entry =
                          Round2(PriceMemo[<<a.spot, a.strike, a.maturity, a.rate,
                                             a.vol, a.opt>>])
                  ELSE req.price_input > 0 /\ o.price_entry = Round2(req.price_input)]_vars

\* C8 witness: the last position was entered at the model price of the spot
C8_Witness ==
  /\ result = "returned"
  /\ pending
  /\ book # <<>>
  /\ LET o == book[Len(book)]
     IN  /\ o.strike = EffSpot
         /\ o.price_entry =
               Round2(PriceMemo[<<EffSpot, o.strike, o.maturity, o.rate, o.vol, o.type>>])
         /\ o.price_entry > 0

\* C9: the book changes only by one position appended at its end or by being
\* emptied; no step edits, reorders or removes a single position.
C9_AppendOrFlattenOnly ==
  [][\/ book' = book
     \/ book' = <<>>
     \/ /\ Len(book') = Len(book) + 1
        /\ SubSeq(book', 1, Len(book)) = book]_vars

\* C9 witness: a second position was appended behind a first one
C9_Witness ==
  /\ result = "returned"
  /\ Len(book) = 2
  /\ book[1] # book[2]

\* BlackScholes.price of position o at the current spot
ModelPrice(o) == PriceMemo[<<EffSpot, o.strike, o.maturity, o.rate, o.vol, o.type>>]

\* a long call whose model price at the current spot is a number above its
\* stored entry price
LongCallBelowModel(o) ==
  /\ o.type = "Call"
  /\ o.side = "BUY"
  /\ o.qty > 0
  /\ ~ScalarPriceRaises(EffSpot, o.strike)
  /\ IsFin(ModelPrice(o))
  /\ o.price_entry < ModelPrice(o)

\* C10 as stated: such a position has a strictly positive pnl(spot).
C10_LongCallPnlPositive ==
  \A n \in 1..Len(book) :
     LongCallBelowModel(book[n]) => OptionPnl(book[n], EffSpot) > 0

\* C10 amended: such a position has a non-negative pnl(spot), strictly positive
\* when quantity times (model price - entry price) exceeds half a cent.
C10_LongCallPnlNonNegative ==
  \A n \in 1..Len(book) :
     LongCallBelowModel(book[n]) =>
        LET o == book[n]
            gain == FMul(IntToF(o.qty), FSub(ModelPrice(o), o.price_entry))
        IN  /\ OptionPnl(o, EffSpot) >= 0
            /\ gain > Dec(5, 1000) => OptionPnl(o, EffSpot) > 0

\* C10 witness: a long call priced above its entry shows a positive pnl
C10_Witness ==
  \E n \in 1..Len(book) :
     /\ LongCallBelowModel(book[n])
     /\ OptionPnl(book[n], EffSpot) > 0

\* two positions alike in everything but the side, the first bought, the second sold
Mirrored(o1, o2) ==
  /\ o1.side = "BUY" /\ o2.side = "SELL"
  /\ o1.type = o2.type /\ o1.strike = o2.strike /\ o1.qty = o2.qty
  /\ o1.vol = o2.vol /\ o1.rate = o2.rate /\ o1.maturity = o2.maturity
  /\ o1.price_entry = o2.price_entry

\* C11: for two positions that differ only in side, pnl(spot) of the SELL one is
\* the negation of pnl(spot) of the BUY one at every spot, and a book holding
\* just the two of them has all six curves zero at every grid index.
C11_MirrorCancels ==
  /\ \A o1, o2 \in Options :
        Mirrored(o1, o2) =>
           \A s \in ScalarSpots :
              ~ScalarPriceRaises(s, o1.strike) => OptionPnl(o2, s) = FNeg(OptionPnl(o1, s))
  /\ (result = "portfolio_curves" /\ Len(book) = 2
        /\ (Mirrored(book[1], book[2]) \/ Mirrored(book[2], book[1])))
       => AllZeroCurves(curves)

\* the orders in which n positions can be added
Orders(n) == {p \in [1..n -> 1..n] : \A i, j \in 1..n : i # j => p[i] # p[j]}

\* the book bk built in the order p
Reorder(bk, p) == [k \in 1..Len(bk) |-> bk[p[k]]]

\* the contributions of the first n positions of bk to curve c at grid index i,
\* added as real numbers, and the sum of their magnitudes
RECURSIVE ExactSum(_, _, _, _)
ExactSum(bk, c, i, n) ==
  IF n = 0 THEN 0 ELSE ExactSum(bk, c, i, n - 1) + ContributionMemo[bk[n]][c][i]
RECURSIVE AbsSum(_, _, _, _)
AbsSum(bk, c, i, n) ==
  IF n = 0 THEN 0 ELSE AbsSum(bk, c, i, n - 1) + Abs(ContributionMemo[bk[n]][c][i])

\* what a sum with a nan or infinite term comes to, in whatever order it is taken
NonFiniteSum(bk, c, i) ==
  LET terms == {ContributionMemo[bk[n]][c][i] : n \in 1..Len(bk)}
  IN  IF NaN \in terms \/ (PInf \in terms /\ NInf \in terms) THEN NaN
      ELSE IF PInf \in terms THEN PInf ELSE NInf

\* C12 as stated: the curves do not depend on the order in which the positions
\* were added: every reordering of the book gives the same six curves at every
\* grid index.
C12_OrderIrrelevant ==
  result = "portfolio_curves" =>
     \A p \in Orders(Len(book)) : portfolio_curves(Reorder(book, p)) = curves

\* C12 amended: the order matters only through the rounding of the running sum.
\* For a book of at most two positions every order gives identical curves; for
\* any book, at a grid index where all contributions are finite each curve
\* value is within (n - 1) rounding errors of the exact sum of the n
\* contributions, and where some contribution is nan or infinite the value is
\* the same nan or infinity in whatever order the positions were added.
C12_OrderWithinRounding ==
  result = "portfolio_curves" =>
     LET n == Len(book)
     IN  /\ n <= 2 =>
              \A p \in Orders(n) : portfolio_curves(Reorder(book, p)) = curves
         /\ \A c \in CurveNames : \A i \in DOMAIN spot_grid :
              IF \A k \in 1..n : IsFin(ContributionMemo[book[k]][c][i])
              THEN /\ IsFin(curves[c][i])
                   /\ Abs(curves[c][i] - ExactSum(book, c, i, n))
                        <= (IF n <= 1 THEN 0
                            ELSE (n - 1) * RoundingError(AbsSum(book, c, i, n)))
              ELSE curves[c][i] = NonFiniteSum(book, c, i)

\* C12 witness: the curves of three positions, one order of which gives a value
\* that differs in its last bits
C12_Witness ==
  /\ result = "portfolio_curves"
  /\ Len(book) = 3
  /\ \E p \in Orders(3) : \E i \in DOMAIN spot_grid :
        /\ IsFin(curves["pnl"][i])
        /\ portfolio_curves(Reorder(book, p))["pnl"][i] # curves["pnl"][i]

\* what a freshly created portfolio holding the positions bk returns: from zero
\* vectors, the contributions of the positions added one after the other
FreshCurves(bk) == Accumulate(bk, Len(bk))

\* C13: portfolio_curves() carries no state between calls: after any sequence of
\* add_option, flatten and earlier portfolio_curves calls, the curves returned
\* are those a fresh portfolio holding the same positions returns, and a call
\* that follows another with no change of the book returns the same curves.
C13_NoCarriedState ==
  [][result' = "portfolio_curves" =>
        /\ book' = book
        /\ curves' = FreshCurves(book)
        /\ result = "portfolio_curves" => curves' = curves]_vars

\* C13 witness: curves were returned for a book of two or more positions, and
\* they are not the zero vectors a call starts from
C13_Witness ==
  /\ result = "portfolio_curves"
  /\ Len(book) >= 2
  /\ curves = FreshCurves(book)
  /\ ~AllZeroCurves(curves)

\* C14: add_option and flatten never interleave with a portfolio_curves pass in
\* progress: with update_book and render_right_panel run by two callers at
\* once, the curves a pass returns are the aggregation of the book as it stood
\* at one instant of the pass, never a mix of positions from before and after
\* a flatten or an add.
C14_PassSeesOneInstant ==
  [][(it # None /\ it' = None) =>
        \E b \in seen :
           portfolio_curves(b) = portfolio_curves(right_panel'.curves_of)]_vars

\* C15: put-call parity: for S > 0, K > 0, T > 0, sigma > 0 and any r, the call
\* price less the put price equals S - K * exp(-r * T) up to the rounding of
\* the arithmetic (two rounding errors at the magnitude of S + K).
C15_PutCallParity ==
  (/\ quote # <<>>
   /\ quote.call # None
   /\ quote.S > 0 /\ quote.K > 0 /\ quote.T > 0 /\ quote.sigma > 0)
  => LET forward == FSub(quote.S, FMul(quote.K, Exp(FMul(FNeg(quote.r), quote.T))))
     IN  /\ IsFin(quote.call) /\ IsFin(quote.put)
         /\ Abs(FSub(quote.call, quote.put) - forward)
               <= 2 * RoundingError(quote.S + quote.K)

\* C15 witness: a call and a put priced out of the money and in the money with
\* a negative rate, both worth something
C15_Witness ==
  /\ quote # <<>>
  /\ quote.call # None
  /\ quote.r < 0
  /\ quote.S # quote.K
  /\ quote.call > 0 /\ quote.put > 0
  /\ quote.call # quote.put

\* C16: whenever the right panel is rendered for the Equity tab with spot s, the
\* book table has one row per position of the book, in book order, and each
\* row's pnl is that position's pnl at s.
C16_TableShowsBookAtSpot ==
  (result = "rendered" /\ right_panel.kind = "equity") =>
     /\ right_panel.spot = EffSpot
     /\ Len(right_panel.table) = Len(book)
     /\ \A n \in 1..Len(book) :
          ~ScalarPriceRaises(EffSpot, book[n].strike) =>
             right_panel.table[n] = BookRow(book[n], EffSpot)

\* the request req, with the defaults of update_book for what it leaves out, as
\* the fields of position o
CarriesRequest(o, req, spot_value) ==
  LET spot_ == IF spot_value # None THEN spot_value ELSE IntToF(100)
  IN  /\ o.type = (IF req.opt \in {"Call", "Put"} THEN req.opt ELSE "Call")
      /\ o.side = (IF req.side \in {"BUY", "SELL"} THEN req.side ELSE "BUY")
      /\ o.strike = (IF req.strike # None THEN req.strike ELSE spot_)
      /\ o.qty = (IF req.qty # None THEN req.qty ELSE 1)
      /\ o.vol = (IF req.vol # None THEN req.vol ELSE Dec(2, 10))
      /\ o.rate = (IF req.rate # None THEN req.rate ELSE Dec(1, 100))
      /\ o.maturity = (IF req.maturity # None THEN req.maturity ELSE Dec(5, 10))

\* C17: every accepted trade request (the trade button, an entry price that is
\* not negative) appends exactly one position at the end of the book, leaves
\* the earlier positions in place, and the new position carries the request's
\* values with the defaults for absent fields; a flatten request leaves the
\* book with no position.
C17_AcceptedTradeAppends ==
  [][(~pending /\ result' \in {"returned", "raised", "no_update"}) =>
        /\ \A req \in Requests :
             (/\ req.price_input = None \/ req.price_input >= 0
              /\ update_book("trade", req))
             => /\ Len(book') = Len(book) + 1
                /\ SubSeq(book', 1, Len(book)) = book
                /\ CarriesRequest(book'[Len(book')], req, spot)
        /\ update_book("flatten", NoRequest) => book' = <<>>]_vars

\* C18: read-only operations leave shared state unchanged: render_right_panel
\* and an update_book triggered by neither button (with the portfolio_curves
\* and Option.pnl calls they make) leave the book as it was, and no operation
\* changes the contents or the length of the shared spot grid.
C18_ReadOnlyFrame ==
  [][/\ grid' = grid
     /\ result' = "rendered" => book' = book
     /\ (~pending /\ result' \in {"returned", "raised"}) =>
           (update_book("None", NoRequest) => book' = book)]_vars

\* C18 witness: the panel was rendered, curves and all, for a book that holds a
\* position and whose rows update_book has built, and the grid is as created
C18_Witness ==
  /\ result = "rendered"
  /\ right_panel.kind = "equity"
  /\ Len(book) >= 1
  /\ right_panel.curves_of = book
  /\ Len(book_data) = Len(book)
  /\ risk_pnl # None
  /\ grid = spot_grid

====
